---- MODULE Spec2Model ----
(***************************************************************************)
(* A model of src/app.py: a Dash dashboard over the GSS 2018 survey.       *)
(*                                                                         *)
(* The module runs top to bottom at import: it loads the CSV, selects and  *)
(* renames columns, cleans age, computes five static figures, creates the  *)
(* Dash app, builds the layout, registers the callback update_graph and    *)
(* finally rebinds `server`.  StartupSpec models that run; it ends in the  *)
(* NameError of line 138, so the file as written serves nothing.           *)
(*                                                                         *)
(* Spec is about the function update_graph, not about a served dashboard:  *)
(* the file makes no call of it.  Spec starts in the state the module load *)
(* ends in and applies update_graph to arguments drawn from the values its *)
(* two Inputs can hold: an option of the dropdown, or None for a dropdown  *)
(* that has been cleared.  A call returns a figure or raises; it writes    *)
(* nothing to app.layout, which stays as line 86 set it.                   *)
(*                                                                         *)
(* A data frame is a record [columns, rows]: the column names in order and *)
(* the rows in order, each row a function from column name to cell.  A     *)
(* missing cell (pandas NaN) is NaN in a numeric column and NA in a text   *)
(* column; every number of the survey is >= 0, so NaN == -1 is no value.   *)
(***************************************************************************)
EXTENDS Integers, Sequences, FiniteSets

\* ------------------------------------------------------------ bounds
\* The largest number of respondents (rows) of a data set.
MaxRows == 2

\* ------------------------------------------------------------ cells
NaN == -1
NA == "NaN"
\* The value of a cleared dropdown (Python None).
None == "None"

NumericCols ==
    {"id", "wtss", "weight", "educ", "education", "coninc", "income",
     "prestg10", "job_prestige", "mapres10", "mother_job_prestige",
     "papres10", "father_job_prestige", "sei10", "socioeconomic_index", "age"}

isna(col, v) == IF col \in NumericCols THEN v = NaN ELSE v = NA

\* ------------------------------------------------------------ sequences
Range(s) == {s[i] : i \in 1..Len(s)}

RECURSIVE SelectSeqBy(_, _)
\* The subsequence of s at the indices (a set) keep, in order.
SelectSeqBy(s, keep) ==
    IF s = <<>> THEN <<>>
    ELSE LET n == Len(s)
             front == SelectSeqBy(SubSeq(s, 1, n - 1), keep)
         IN IF n \in keep THEN Append(front, s[n]) ELSE front

RECURSIVE SumOver(_, _, _)
SumOver(s, idx, col) ==
    IF idx = {} THEN 0
    ELSE LET i == CHOOSE j \in idx : TRUE
         IN s[i][col] + SumOver(s, idx \ {i}, col)

SetMin(S) == CHOOSE m \in S : \A k \in S : m <= k
SetMax(S) == CHOOSE m \in S : \A k \in S : m >= k

\* ------------------------------------------------------------ load and clean
\* Line 14-16: the columns kept from the CSV.
mycols ==
    <<"id", "wtss", "sex", "educ", "region", "age", "coninc",
      "prestg10", "mapres10", "papres10", "sei10", "satjob",
      "fechld", "fefam", "fepol", "fepresch", "meovrwrk">>

\* Line 18-24: the renaming; keys that name no column are ignored by rename.
RenameKeys ==
    {"wtss", "educ", "coninc", "prestg10", "mapres10", "papres10", "sei10",
     "fechld", "fefam", "fehire", "fejobaff", "fepol", "fepresch", "meovrwrk"}

RenameTo(k) ==
    CASE k = "wtss" -> "weight"
      [] k = "educ" -> "education"
      [] k = "coninc" -> "income"
      [] k = "prestg10" -> "job_prestige"
      [] k = "mapres10" -> "mother_job_prestige"
      [] k = "papres10" -> "father_job_prestige"
      [] k = "sei10" -> "socioeconomic_index"
      [] k = "fechld" -> "relationship"
      [] k = "fefam" -> "male_breadwinner"
      [] k = "fehire" -> "hire_women"
      [] k = "fejobaff" -> "preference_hire_women"
      [] k = "fepol" -> "men_bettersuited"
      [] k = "fepresch" -> "child_suffer"
      [] k = "meovrwrk" -> "men_overwork"

\* The renaming with the key of fechld misspelt: that column keeps its name.
NewNameTypo(c) == IF c \in RenameKeys \ {"fechld"} THEN RenameTo(c) ELSE c
NewName(c) == IF c \in RenameKeys THEN RenameTo(c) ELSE c

\* gss[mycols]: the listed columns, in the listed order.
select(frame, cols) ==
    [columns |-> cols,
     rows |-> [i \in 1..Len(frame.rows) |->
                  [c \in Range(cols) |-> frame.rows[i][c]]]]

\* DataFrame.rename(mapper, axis=1): each column the mapper names is renamed.
rename(frame) ==
    [columns |-> [i \in 1..Len(frame.columns) |-> NewName(frame.columns[i])],
     rows |-> [i \in 1..Len(frame.rows) |->
                  [c \in {NewName(d) : d \in Range(frame.columns)} |->
                      LET old == CHOOSE d \in Range(frame.columns) : NewName(d) = c
                      IN frame.rows[i][old]]]]

\* Line 25-26: '89 or older' is replaced by '89', then the text is read as a
\* float.  The CSV holds age as text; the ages of the model are these.
AgeText == {"18", "34", "89", "89 or older", NA}
AgeReplace(t) == IF t = "89 or older" THEN "89" ELSE t
AgeFloat(t) ==
    CASE t = "18" -> 18
      [] t = "34" -> 34
      [] t = "89" -> 89
      [] t = NA -> NaN

clean_age(frame) ==
    [frame EXCEPT !.rows =
        [i \in 1..Len(frame.rows) |->
            [frame.rows[i] EXCEPT !["age"] = AgeFloat(AgeReplace(@))]]]

\* Lines 17-26.
clean(gssframe) == clean_age(rename(select(gssframe, mycols)))

\* ------------------------------------------------------------ frame operations
\* DataFrame.dropna(subset=cols): the rows with no missing cell among cols.
dropna(frame, cols) ==
    [frame EXCEPT !.rows =
        SelectSeqBy(frame.rows,
            {i \in 1..Len(frame.rows) :
                \A c \in cols : ~isna(c, frame.rows[i][c])})]

\* frame[cols]: a projection (a new frame).
project(frame, cols) == select(frame, cols)

\* The mean is the double nearest to sum/n, and round(2) is numpy's
\* rint(mean * 100) / 100 on doubles.  The operators below give the result
\* in hundredths, in integer arithmetic.
RECURSIVE GCD(_, _)
GCD(a, b) == IF b = 0 THEN a ELSE GCD(b, a % b)

RECURSIVE Pow2(_)
Pow2(k) == IF k = 0 THEN 1 ELSE 2 * Pow2(k - 1)

RECURSIVE Pow2Mod(_, _)
\* 2^k modulo b.
Pow2Mod(k, b) == IF k = 0 THEN 1 % b ELSE (2 * Pow2Mod(k - 1, b)) % b

RECURSIVE Log2Floor(_, _)
\* The binary exponent of a/b > 0: the e with 2^e <= a/b < 2^(e+1).
Log2Floor(a, b) ==
    IF a >= 2 * b THEN Log2Floor(a, 2 * b) + 1
    ELSE IF a < b THEN Log2Floor(2 * a, b) - 1
    ELSE 0

\* The bits of a double's significand after the leading one.
MantissaBits == 52

\* rint rounds a double that is exactly q + 1/2 to the even neighbour.
HalfEven(q) == IF q % 2 = 0 THEN q ELSE q + 1

\* 100 * sum / n is exactly q + 1/2.  With a/b = sum/n in lowest terms:
\* when b is a power of two the mean is a double, the product is exactly
\* q + 1/2 and rint rounds it to even.  Otherwise the mean is the nearest
\* double m = (a * 2^s + D) / (b * 2^s), s = 52 - e, with D the rounding
\* error of the significand; m * 100 is off q + 1/2 by 100 * D / (b * 2^s),
\* less than one unit in the last place of q + 1/2 (2^(E - 52)), and the
\* product rounds to q + 1/2 itself unless it is off by more than half a
\* unit, that is unless 200 * |D| > b * 2^(E - e).
RoundTie(sum, n, q) ==
    LET g == GCD(sum, n)
        a == sum \div g
        b == n \div g
    IN IF b \in {1, 2, 4, 8} THEN HalfEven(q)
       ELSE LET e == Log2Floor(a, b)
                rem == (a * Pow2Mod(MantissaBits - e, b)) % b
                D == IF 2 * rem < b THEN 0 - rem ELSE b - rem
                absD == IF D < 0 THEN 0 - D ELSE D
                E == Log2Floor(2 * q + 1, 2)
            IN IF 200 * absD > b * Pow2(E - e)
               THEN (IF D > 0 THEN q + 1 ELSE q)
               ELSE HalfEven(q)

RoundedMean(sum, n) ==
    LET q == (100 * sum) \div n
        r == (100 * sum) % n
    IN IF 2 * r < n THEN q
       ELSE IF 2 * r > n THEN q + 1
       ELSE RoundTie(sum, n, q)

\* The mean of a column over the rows idx, missing cells skipped; NaN when
\* every cell is missing.  In hundredths.
MeanOf(rows, idx, col) ==
    LET present == {i \in idx : rows[i][col] # NaN}
    IN IF present = {} THEN NaN
       ELSE RoundedMean(SumOver(rows, present, col), Cardinality(present))

\* Lines 42-50: one record per sex (groupby drops a missing key), the four
\* rounded means, under the renamed headers.
summary_df(gc) ==
    {[Sex |-> s,
      MeanIncome |-> MeanOf(gc.rows, {i \in 1..Len(gc.rows) : gc.rows[i]["sex"] = s}, "income"),
      MeanJobPrestige |-> MeanOf(gc.rows, {i \in 1..Len(gc.rows) : gc.rows[i]["sex"] = s}, "job_prestige"),
      MeanSocioeconomicIndex |-> MeanOf(gc.rows, {i \in 1..Len(gc.rows) : gc.rows[i]["sex"] = s}, "socioeconomic_index"),
      MeanEducationYears |-> MeanOf(gc.rows, {i \in 1..Len(gc.rows) : gc.rows[i]["sex"] = s}, "education")]
     : s \in {gc.rows[i]["sex"] : i \in 1..Len(gc.rows)} \ {NA}}

table_fig(gc) == [kind |-> "table", data |-> summary_df(gc)]

\* Lines 53-56.
scatter_cols == <<"job_prestige", "income", "sex", "education", "socioeconomic_index">>
scatter_data(gc) == dropna(project(gc, scatter_cols), Range(scatter_cols))
scatter_fig(gc) ==
    [kind |-> "scatter", data |-> scatter_data(gc),
     x |-> "job_prestige", y |-> "income", color |-> "sex"]

\* Lines 59-63.
box_cols == <<"income", "job_prestige", "sex">>
box_data(gc) == dropna(project(gc, box_cols), Range(box_cols))
income_boxplot_fig(gc) ==
    [kind |-> "box", data |-> box_data(gc), x |-> "sex", y |-> "income",
     color |-> "sex", showlegend |-> FALSE]
prestige_boxplot_fig(gc) ==
    [kind |-> "box", data |-> box_data(gc), x |-> "sex", y |-> "job_prestige",
     color |-> "sex", showlegend |-> FALSE]

\* Line 67: pd.cut(values, bins=6): six equal-width intervals over
\* [min, max], closed on the right, the first one widened to hold min.  The
\* category of v is the index k of the interval, NaN for a missing v.  When
\* min = max pandas widens the range by 0.1% on both sides, and the value
\* sits on the edge closing the third interval.  (The edges are floats; an
\* integer v on an edge is taken to compare equal to it.)
FacetBins == 6
cut_equal_width(vals, v) ==
    LET mn == SetMin(vals)
        mx == SetMax(vals)
    IN IF v = NaN THEN NaN
       ELSE IF mn = mx THEN FacetBins \div 2
       ELSE IF v = mn THEN 1
       ELSE SetMin({k \in 1..FacetBins : FacetBins * (v - mn) <= k * (mx - mn)})

\* Lines 66-72.
facet_cols == <<"income", "sex", "job_prestige">>
facet_df(gc) ==
    LET f == project(gc, facet_cols)
        vals == {f.rows[i]["job_prestige"] : i \in 1..Len(f.rows)} \ {NaN}
        withcat ==
            [columns |-> Append(f.columns, "prestige_category"),
             rows |-> [i \in 1..Len(f.rows) |->
                 [c \in Range(f.columns) \cup {"prestige_category"} |->
                     IF c = "prestige_category"
                     THEN cut_equal_width(vals, f.rows[i]["job_prestige"])
                     ELSE f.rows[i][c]]]]
        keep == {i \in 1..Len(withcat.rows) :
                    /\ withcat.rows[i]["income"] # NaN
                    /\ withcat.rows[i]["sex"] # NA
                    /\ withcat.rows[i]["job_prestige"] # NaN
                    /\ withcat.rows[i]["prestige_category"] # NaN}
    IN [withcat EXCEPT !.rows = SelectSeqBy(withcat.rows, keep)]
facet_fig(gc) ==
    [kind |-> "box", data |-> facet_df(gc), x |-> "sex", y |-> "income",
     color |-> "sex", facet_col |-> "prestige_category", facet_col_wrap |-> 2]

\* Line 67 raises ValueError on a column with no value at all (an empty
\* file, or job_prestige missing in every row).
facet_defined(gc) ==
    \E i \in 1..Len(gc.rows) : gc.rows[i]["job_prestige"] # NaN

\* ------------------------------------------------------------ dropdowns
\* Lines 75-76.
xaxis_options ==
    <<"satjob", "relationship", "male_breadwinner", "men_bettersuited",
      "child_suffer", "men_overwork">>
color_options == <<"sex", "region", "education">>

\* Lines 94 and 96: value=...
initial_xaxis == "male_breadwinner"
initial_color == "sex"

\* '_' -> ' ' and str.title() on the dropdown values (lines 94, 96, 130, 132).
Title(col) ==
    CASE col = "satjob" -> "Satjob"
      [] col = "relationship" -> "Relationship"
      [] col = "male_breadwinner" -> "Male Breadwinner"
      [] col = "men_bettersuited" -> "Men Bettersuited"
      [] col = "child_suffer" -> "Child Suffer"
      [] col = "men_overwork" -> "Men Overwork"
      [] col = "sex" -> "Sex"
      [] col = "region" -> "Region"
      [] col = "education" -> "Education"

\* ------------------------------------------------------------ update_graph
\* A Python object: its identity and its value.  A mutation of an object is
\* seen through every name bound to that identity.
GlobalId == 0

\* Line 117: DataFrame.copy() is a new object with the same cells.
\* A variant: df = gss_clean, the same object under a second name.
copy_alias(obj) == obj
copy(obj) == [id |-> obj.id + 1, frame |-> obj.frame]

\* Lines 119-120.
bins == <<0, 8, 12, 16, 25>>
labels == <<"<9 years", "9-12 years", "13-16 years", ">16 years">>

\* Line 121: pd.cut(v, bins, labels, right=True): the label of the interval
\* (bins[k], bins[k+1]] holding v; missing when v is missing or in none.
cut(v) ==
    IF v = NaN THEN NA
    ELSE IF \E k \in 1..Len(labels) : bins[k] < v /\ v <= bins[k + 1]
         THEN labels[CHOOSE k \in 1..Len(labels) : bins[k] < v /\ v <= bins[k + 1]]
         ELSE NA

\* Line 121: df['education_binned'] = ...: the object df is changed in place.
set_education_binned(obj) ==
    LET f == obj.frame
        cols == IF "education_binned" \in Range(f.columns) THEN f.columns
                ELSE Append(f.columns, "education_binned")
    IN [obj EXCEPT !.frame =
          [columns |-> cols,
           rows |-> [i \in 1..Len(f.rows) |->
              [c \in Range(cols) |->
                  IF c = "education_binned" THEN cut(f.rows[i]["education"])
                  ELSE f.rows[i][c]]]]]

\* Line 127: groupby([x, c]).size().reset_index(name='count'): one record per
\* group; a row with a missing key is in no group.  A text key yields the
\* groups that occur; a categorical key (the education bins) yields every
\* category for every x that occurs, with count 0 where no row falls
\* (groupby's observed=False).  The order of the records (sorted by key) is
\* not modelled.
\* A variant: the two keys reported in each other's place.
groupby_size_swapped(frame, xcol, ccol) ==
    {[x |-> frame.rows[i][ccol], c |-> frame.rows[i][xcol],
      count |-> Cardinality({j \in 1..Len(frame.rows) :
                   /\ frame.rows[j][xcol] = frame.rows[i][xcol]
                   /\ frame.rows[j][ccol] = frame.rows[i][ccol]})]
     : i \in {k \in 1..Len(frame.rows) :
                 ~isna(xcol, frame.rows[k][xcol]) /\ ~isna(ccol, frame.rows[k][ccol])}}
\* A variant: the rows counted by x alone, under every value of c.
groupby_size_nosplit(frame, xcol, ccol) ==
    {[x |-> frame.rows[i][xcol], c |-> frame.rows[m][ccol],
      count |-> Cardinality({j \in 1..Len(frame.rows) :
                   frame.rows[j][xcol] = frame.rows[i][xcol]})]
     : i \in {k \in 1..Len(frame.rows) : ~isna(xcol, frame.rows[k][xcol])},
       m \in {k \in 1..Len(frame.rows) : ~isna(ccol, frame.rows[k][ccol])}}
groupby_size(frame, xcol, ccol) ==
    LET keyed == {i \in 1..Len(frame.rows) :
                    ~isna(xcol, frame.rows[i][xcol]) /\ ~isna(ccol, frame.rows[i][ccol])}
        xs == {frame.rows[i][xcol] : i \in keyed}
        pairs == IF ccol = "education_binned" THEN xs \X Range(labels)
                 ELSE {<<frame.rows[i][xcol], frame.rows[i][ccol]>> : i \in keyed}
    IN {[x |-> p[1], c |-> p[2],
         count |-> Cardinality({i \in keyed :
                      frame.rows[i][xcol] = p[1] /\ frame.rows[i][ccol] = p[2]})]
        : p \in pairs}

NoFigure == [kind |-> "none"]

\* Lines 128-134.
bar(grouped_df, xaxis_col, color_col_plot, color_col) ==
    [kind |-> "bar", data |-> grouped_df, x |-> xaxis_col, y |-> "count",
     color |-> color_col_plot, barmode |-> "group",
     xlabel |-> Title(xaxis_col), ylabel |-> "Number of Respondents",
     colorlabel |-> Title(color_col)]

\* The frame of the global gss_clean once the call has run: the object the
\* call worked on, if that is the global's object.
global_after(global, df) == IF df.id = global.id THEN df.frame ELSE global.frame

\* Lines 117-124: the working copy df, with education_binned when grouping
\* by education, and the column the chart is coloured by.
working_copy(global, color_col) ==
    IF color_col = "education" THEN set_education_binned(copy(global))
    ELSE copy(global)
color_col_plot_of(color_col) ==
    IF color_col = "education" THEN "education_binned" ELSE color_col

\* Lines 126-134 on the working frame.
chart(frame, xaxis_col, color_col) ==
    LET color_col_plot == color_col_plot_of(color_col)
        df_plot == dropna(frame, {xaxis_col, color_col_plot})
        grouped_df == groupby_size(df_plot, xaxis_col, color_col_plot)
    IN bar(grouped_df, xaxis_col, color_col_plot, color_col)

\* Lines 116-135.  raised: the call ended in a KeyError (line 126: a name of
\* the subset is no column); fig: the figure returned; gss_clean: the frame
\* of the global when the call ends.
\* A variant: the rows dropped at line 126 are dropped from the global too.
update_graph_inplace(gc, xaxis_col, color_col) ==
    LET global == [id |-> GlobalId, frame |-> gc]
        df == working_copy(global, color_col)
        found == {xaxis_col, color_col_plot_of(color_col)} \subseteq Range(df.frame.columns)
    IN IF ~found
       THEN [raised |-> TRUE, fig |-> NoFigure, gss_clean |-> global_after(global, df)]
       ELSE [raised |-> FALSE, fig |-> chart(df.frame, xaxis_col, color_col),
             gss_clean |-> project(dropna(df.frame, {xaxis_col, color_col_plot_of(color_col)}),
                                   gc.columns)]
\* A variant: a value that is no column is replaced by the dropdown's
\* initial value, and a chart is returned.
update_graph_fallback(gc, xaxis_col, color_col) ==
    LET global == [id |-> GlobalId, frame |-> gc]
        x == IF xaxis_col \in Range(gc.columns) THEN xaxis_col ELSE initial_xaxis
        c == IF color_col \in Range(gc.columns) THEN color_col ELSE initial_color
        df == working_copy(global, c)
    IN [raised |-> FALSE, fig |-> chart(df.frame, x, c),
        gss_clean |-> global_after(global, df)]
update_graph(gc, xaxis_col, color_col) ==
    LET global == [id |-> GlobalId, frame |-> gc]
        df == working_copy(global, color_col)
        found == {xaxis_col, color_col_plot_of(color_col)} \subseteq Range(df.frame.columns)
    IN IF ~found
       THEN [raised |-> TRUE, fig |-> NoFigure, gss_clean |-> global_after(global, df)]
       ELSE [raised |-> FALSE, fig |-> chart(df.frame, xaxis_col, color_col),
             gss_clean |-> global_after(global, df)]

\* ------------------------------------------------------------ input data
\* The CSV read at line 11: the columns of mycols and two more, fehire and
\* fejobaff, which the renaming names but mycols does not keep.
RawColumns == mycols \o <<"fehire", "fejobaff">>

Sexes == <<"male", "female">>
\* Years of education: missing, none, the last year of the second interval
\* of bins.
EducValues == <<NaN, 0, 12>>

\* The rest of a respondent's answers.
Profiles ==
    <<[region |-> "pacific", age |-> "34", coninc |-> 40000, prestg10 |-> 50,
       mapres10 |-> 40, papres10 |-> 45, sei10 |-> 60, wtss |-> 1,
       satjob |-> "very satisfied", fechld |-> "agree", fefam |-> "disagree",
       fepol |-> "disagree", fepresch |-> "agree", meovrwrk |-> "agree",
       fehire |-> "agree", fejobaff |-> "for"],
      [region |-> NA, age |-> "89 or older", coninc |-> NaN, prestg10 |-> 35,
       mapres10 |-> NaN, papres10 |-> 30, sei10 |-> 25, wtss |-> 2,
       satjob |-> NA, fechld |-> "agree", fefam |-> NA,
       fepol |-> "agree", fepresch |-> NA, meovrwrk |-> "disagree",
       fehire |-> NA, fejobaff |-> NA]>>

\* The kinds of respondent: kind k has sex k mod 2 and education k mod 3,
\* so every sex meets every education; each profile has half the kinds.
NumKinds == Len(Sexes) * Len(EducValues)
KindSex(k) == Sexes[(k % Len(Sexes)) + 1]
KindEduc(k) == EducValues[(k % Len(EducValues)) + 1]
KindProfile(k) == Profiles[(k \div Len(EducValues)) + 1]

\* The row of the file for respondent number id, of kind k.
RawRow(id, k) ==
    [c \in Range(RawColumns) |->
        CASE c = "id" -> id
          [] c = "sex" -> KindSex(k)
          [] c = "educ" -> KindEduc(k)
          [] OTHER -> KindProfile(k)[c]]

\* The files: 1 to MaxRows respondents.  No count depends on the order of
\* the rows, so a file lists its respondents by kind.
RawDatasets ==
    {[columns |-> RawColumns, rows |-> [i \in 1..Len(ks) |-> RawRow(i, ks[i])]] :
        ks \in {q \in UNION {[1..n -> 0..(NumKinds - 1)] : n \in 1..MaxRows} :
                   \A i \in 1..(Len(q) - 1) : q[i] <= q[i + 1]}}

\* ------------------------------------------------------------ state
VARIABLES
    pc,            \* the statement of the module that runs next
    names,         \* the module globals bound so far
    gss,           \* line 11
    gss_clean,     \* lines 17-26
    figs,          \* the five static figures, lines 41-72
    server,        \* lines 83 and 138
    layout,        \* app.layout: the properties of the page's components
    callback_map,  \* the outputs with a registered callback
    last_call,     \* the latest invocation of update_graph
    failed_before, \* an earlier invocation of update_graph raised
    cleaned        \* gss_clean as the cleaning of lines 17-26 left it

vars == <<pc, names, gss, gss_clean, figs, server, layout, callback_map,
          last_call, failed_before, cleaned>>

NoFrame == [columns |-> <<>>, rows |-> <<>>]
NoFigs ==
    [table_fig |-> NoFigure, scatter_fig |-> NoFigure,
     income_boxplot_fig |-> NoFigure, prestige_boxplot_fig |-> NoFigure,
     facet_fig |-> NoFigure]
NoLayout ==
    [xaxis_dropdown |-> None, color_dropdown |-> None,
     interactive_bar_graph |-> NoFigure, graphs |-> NoFigs]
NoCall == [invoked |-> FALSE, xaxis_col |-> None, color_col |-> None,
           raised |-> FALSE, fig |-> NoFigure]

\* Lines 41-72.
static_figures(gc) ==
    [table_fig |-> table_fig(gc), scatter_fig |-> scatter_fig(gc),
     income_boxplot_fig |-> income_boxplot_fig(gc),
     prestige_boxplot_fig |-> prestige_boxplot_fig(gc),
     facet_fig |-> facet_fig(gc)]

\* Lines 86-109: the two dropdowns with their initial values, the bar graph
\* with no figure yet, the five static graphs.
app_layout(fs) ==
    [xaxis_dropdown |-> initial_xaxis, color_dropdown |-> initial_color,
     interactive_bar_graph |-> NoFigure, graphs |-> fs]

\* The globals bound by lines 11-135.
GlobalsBeforeLine138 ==
    {"gss", "mycols", "gss_clean", "markdown_text", "summary_df", "table_fig",
     "scatter_data", "scatter_fig", "box_data", "income_boxplot_fig",
     "prestige_boxplot_fig", "facet_df", "facet_fig", "xaxis_options",
     "color_options", "external_stylesheets", "app", "server", "update_graph"}

\* ------------------------------------------------------------ module load
StartupInit ==
    /\ pc = "load"
    /\ names = {}
    /\ gss = NoFrame
    /\ gss_clean = NoFrame
    /\ cleaned = NoFrame
    /\ figs = NoFigs
    /\ server = "unbound"
    /\ layout = NoLayout
    /\ callback_map = {}
    /\ last_call = NoCall
    /\ failed_before = FALSE

\* Lines 11-13.  The file is one the figures of lines 41-72 can be drawn from.
LoadCSV ==
    /\ pc = "load"
    /\ \E raw \in RawDatasets :
          /\ facet_defined(clean(raw))
          /\ gss' = raw
    /\ names' = names \cup {"gss"}
    /\ pc' = "clean"
    /\ UNCHANGED <<gss_clean, figs, server, layout, callback_map, last_call, failed_before, cleaned>>

\* Lines 14-26.
CleanColumns ==
    /\ pc = "clean"
    /\ gss_clean' = clean(gss)
    /\ cleaned' = clean(gss)
    /\ names' = names \cup {"mycols", "gss_clean"}
    /\ pc' = "figures"
    /\ UNCHANGED <<gss, figs, server, layout, callback_map, last_call, failed_before>>

\* Lines 31-76.
ComputeFigures ==
    /\ pc = "figures"
    /\ figs' = static_figures(gss_clean)
    /\ names' = names \cup {"markdown_text", "summary_df", "table_fig",
                            "scatter_data", "scatter_fig", "box_data",
                            "income_boxplot_fig", "prestige_boxplot_fig",
                            "facet_df", "facet_fig", "xaxis_options",
                            "color_options"}
    /\ pc' = "app"
    /\ UNCHANGED <<gss, gss_clean, server, layout, callback_map, last_call, failed_before, cleaned>>

\* Lines 79-83.
CreateApp ==
    /\ pc = "app"
    /\ server' = "app.server"
    /\ names' = names \cup {"external_stylesheets", "app", "server"}
    /\ pc' = "layout"
    /\ UNCHANGED <<gss, gss_clean, figs, layout, callback_map, last_call, failed_before, cleaned>>

\* Lines 86-109.
SetLayout ==
    /\ pc = "layout"
    /\ layout' = app_layout(figs)
    /\ pc' = "callback"
    /\ UNCHANGED <<names, gss, gss_clean, figs, server, callback_map, last_call, failed_before, cleaned>>

\* Lines 112-135.
\* Line 113: Output('interactive-bar-graph', 'figure'), the one property the
\* callback is registered to produce.
\* A variant: the callback is registered on the x-axis dropdown's value.
callback_output_dropdown == "xaxis-dropdown.value"
callback_output == "interactive-bar-graph.figure"

RegisterCallback ==
    /\ pc = "callback"
    /\ callback_map' = callback_map \cup {callback_output}
    /\ names' = names \cup {"update_graph"}
    /\ pc' = "line138"
    /\ UNCHANGED <<gss, gss_clean, figs, server, layout, last_call, failed_before, cleaned>>

\* Line 138: server = app_final.server.  The name app_final is looked up
\* among the module's globals; a name that is not bound raises NameError and
\* the import of the module fails.
production_app == "app_final"
BindProductionServer ==
    /\ pc = "line138"
    /\ IF production_app \in names
       THEN pc' = "serving" /\ server' = production_app \o ".server"
       ELSE pc' = "NameError" /\ server' = server
    /\ UNCHANGED <<names, gss, gss_clean, figs, layout, callback_map, last_call, failed_before, cleaned>>

StartupNext ==
    \/ LoadCSV
    \/ CleanColumns
    \/ ComputeFigures
    \/ CreateApp
    \/ SetLayout
    \/ RegisterCallback
    \/ BindProductionServer

StartupSpec == StartupInit /\ [][StartupNext]_vars

\* ------------------------------------------------------------ the callback
\* The state the module load ends in on the file raw: the data cleaned, the
\* figures drawn, the layout set, update_graph registered, `server` still
\* app.server, and the NameError of line 138 raised.  It is the state
\* StartupSpec ends in.
LoadEnded(raw) ==
    /\ facet_defined(clean(raw))
    /\ pc = "NameError"
    /\ names = GlobalsBeforeLine138
    /\ gss = raw
    /\ gss_clean = clean(raw)
    /\ cleaned = clean(raw)
    /\ figs = static_figures(clean(raw))
    /\ server = "app.server"
    /\ layout = app_layout(static_figures(clean(raw)))
    /\ callback_map = {callback_output}
    /\ last_call = NoCall
    /\ failed_before = FALSE

Init == \E raw \in RawDatasets : LoadEnded(raw)

\* The callback of lines 112-116 is registered.
callback_registered == callback_output \in callback_map

\* Lines 116-135: one call of update_graph.  Its two arguments are values
\* the Inputs 'xaxis-dropdown' and 'color-dropdown' can hold: an option, or
\* None for a cleared dropdown.  The call returns a figure or raises; the
\* only global it reads is gss_clean and it assigns to none.
Call ==
    /\ callback_registered
    /\ \E xaxis_col \in Range(xaxis_options) \cup {None},
          color_col \in Range(color_options) \cup {None} :
          LET result == update_graph(gss_clean, xaxis_col, color_col)
          IN /\ gss_clean' = result.gss_clean
             /\ last_call' = [invoked |-> TRUE, xaxis_col |-> xaxis_col,
                              color_col |-> color_col,
                              raised |-> result.raised, fig |-> result.fig]
             /\ failed_before' =
                   (failed_before \/ (last_call.invoked /\ last_call.raised))
    /\ UNCHANGED <<pc, names, gss, figs, server, layout, callback_map, cleaned>>

Next == Call

Spec == Init /\ [][Next]_vars

\* ------------------------------------------------------------ claims
valid_pair(x, c) == x \in Range(xaxis_options) /\ c \in Range(color_options)

RECURSIVE SumCounts(_)
SumCounts(data) ==
    IF data = {} THEN 0
    ELSE LET g == CHOOSE h \in data : TRUE
         IN g.count + SumCounts(data \ {g})

\* The count a chart reports for the pair (xv, cv): 0 when it has no bar.
CountOf(data, xv, cv) == SumCounts({g \in data : g.x = xv /\ g.c = cv})

RowsOf(frame) == 1..Len(frame.rows)

\* C1: module load runs every step of lines 11-138 without an error and ends
\* with the server bound and serving; that is, it never ends in an error.
C1_StartupWithoutError == pc # "NameError"

\* C2: after cleaning, gss_clean is never mutated: whatever update_graph was
\* invoked with, gss_clean has the columns, rows and cells cleaning left.
C2_GssCleanNeverMutated == callback_registered => gss_clean = cleaned

\* An invocation with color_col = 'education' has added education_binned to
\* its working copy and drawn a chart with a respondent in it.
C2_Witness ==
    /\ last_call.invoked /\ ~last_call.raised
    /\ last_call.color_col = "education"
    /\ \E g \in last_call.fig.data : g.count > 0

\* C3: update_graph is stateless: what an invocation returns is what its two
\* arguments and the cleaned dataset determine, whatever was invoked before.
C3_Stateless ==
    last_call.invoked =>
        LET r == update_graph(cleaned, last_call.xaxis_col, last_call.color_col)
        IN last_call.raised = r.raised /\ last_call.fig = r.fig

\* An invocation that follows others (one of them failed) and drew a chart
\* with a respondent in it.
C3_Witness ==
    /\ last_call.invoked /\ ~last_call.raised /\ failed_before
    /\ last_call.xaxis_col # initial_xaxis
    /\ \E g \in last_call.fig.data : g.count > 0

\* C4: a call of update_graph on the values the two dropdowns hold (the
\* initial pair, an option chosen, or None for a dropdown cleared) returns
\* the chart computed for those values, the figure that is to replace the
\* bar graph's.
C4_FigureFollowsDropdowns ==
    last_call.invoked =>
        /\ ~last_call.raised
        /\ last_call.fig.kind = "bar"
        /\ last_call.fig =
              update_graph(cleaned, last_call.xaxis_col, last_call.color_col).fig

C6_CountsAreRowCounts ==
    (last_call.invoked /\ ~last_call.raised /\ last_call.color_col \in {"sex", "region"}) =>
        LET xc == last_call.xaxis_col
            cc == last_call.color_col
        IN /\ \A i \in RowsOf(cleaned) :
                 (cleaned.rows[i][xc] # NA /\ cleaned.rows[i][cc] # NA) =>
                     CountOf(last_call.fig.data, cleaned.rows[i][xc], cleaned.rows[i][cc])
                       = Cardinality({j \in RowsOf(cleaned) :
                            /\ cleaned.rows[j][xc] = cleaned.rows[i][xc]
                            /\ cleaned.rows[j][cc] = cleaned.rows[i][cc]})
           /\ \A g \in last_call.fig.data :
                 /\ g.x # NA /\ g.c # NA
                 /\ g.count = Cardinality({j \in RowsOf(cleaned) :
                        cleaned.rows[j][xc] = g.x /\ cleaned.rows[j][cc] = g.c})

\* Two respondents, one counted in a bar and one with a missing region who
\* is in none.
C6_Witness ==
    /\ last_call.invoked /\ ~last_call.raised
    /\ last_call.color_col = "region"
    /\ Len(cleaned.rows) = 2
    /\ SumCounts(last_call.fig.data) = 1
    /\ \E i \in RowsOf(cleaned) :
          /\ cleaned.rows[i]["region"] = NA
          /\ cleaned.rows[i][last_call.xaxis_col] # NA

\* C7: grouped by education, a respondent with fewer than 9 years is counted
\* under '<9 years', 9 to 12 under '9-12 years', 13 to 16 under '13-16
\* years', more than 16 under '>16 years': every respondent with an education
\* value and an answer to the question is under exactly one label.
LabelStated(years) ==
    IF years < 9 THEN "<9 years"
    ELSE IF years <= 12 THEN "9-12 years"
    ELSE IF years <= 16 THEN "13-16 years"
    ELSE ">16 years"
C7_EducationBinsAsLabelled ==
    (last_call.invoked /\ ~last_call.raised /\ last_call.color_col = "education") =>
        LET xc == last_call.xaxis_col
            answered == {i \in RowsOf(cleaned) :
                            cleaned.rows[i][xc] # NA /\ cleaned.rows[i]["education"] # NaN}
        IN \A xv \in {cleaned.rows[i][xc] : i \in answered}, l \in Range(labels) :
              CountOf(last_call.fig.data, xv, l)
                = Cardinality({i \in answered :
                      /\ cleaned.rows[i][xc] = xv
                      /\ LabelStated(cleaned.rows[i]["education"]) = l})

\* C8: a failure of update_graph is propagated, not recovered: invoked with a
\* value that is no column it raises and returns no figure, an invocation
\* that raised has no figure from a second attempt, the cleaned dataset is
\* unchanged, and after a failure an invocation with valid values returns
\* the chart it returns on the cleaned dataset.
C8_FailurePropagates ==
    last_call.invoked =>
        /\ ~valid_pair(last_call.xaxis_col, last_call.color_col) =>
              /\ last_call.raised
              /\ gss_clean = cleaned
        /\ last_call.raised => last_call.fig = NoFigure
        /\ (failed_before /\ valid_pair(last_call.xaxis_col, last_call.color_col)) =>
              /\ ~last_call.raised
              /\ gss_clean = cleaned
              /\ last_call.fig.kind = "bar"
              /\ last_call.fig =
                    update_graph(cleaned, last_call.xaxis_col, last_call.color_col).fig

\* An invocation on a cleared x-axis dropdown, grouped by education, that
\* raised and returned no figure, on a dataset with a respondent a valid
\* call counts.
C8_Witness ==
    /\ last_call.invoked /\ last_call.raised
    /\ last_call.xaxis_col = None
    /\ last_call.color_col = "education"
    /\ last_call.fig = NoFigure
    /\ gss_clean = cleaned
    /\ \E g \in update_graph(cleaned, initial_xaxis, "education").fig.data : g.count > 0

\* C9: every value the dropdowns offer, and both initial values, is a column
\* of the cleaned dataset, so update_graph finds both columns of every
\* selectable pair; the renaming of fehire and fejobaff adds no column.
C9_OptionsAreColumns ==
    callback_registered =>
        /\ \A o \in Range(xaxis_options) \cup Range(color_options)
                      \cup {initial_xaxis, initial_color} :
              o \in Range(gss_clean.columns)
        /\ {"hire_women", "preference_hire_women", "fehire", "fejobaff"}
              \cap Range(gss_clean.columns) = {}
        /\ Len(gss_clean.columns) = Len(mycols)
        /\ (last_call.invoked /\ valid_pair(last_call.xaxis_col, last_call.color_col))
              => ~last_call.raised

\* An invocation on two renamed columns that found both.
C9_Witness ==
    /\ last_call.invoked /\ ~last_call.raised
    /\ last_call.xaxis_col = "relationship"
    /\ last_call.color_col = "education"

\* C10: for every selectable pair the counts sum to the number of rows of
\* the cleaned dataset with both the xaxis_col value and the grouping value
\* (the color_col value, or the education bin) present.
GroupingValue(row, color_col) ==
    IF color_col = "education" THEN cut(row["education"]) ELSE row[color_col]
C10_CountsSumToRows ==
    (last_call.invoked /\ valid_pair(last_call.xaxis_col, last_call.color_col)) =>
        /\ ~last_call.raised
        /\ SumCounts(last_call.fig.data)
             = Cardinality({i \in RowsOf(cleaned) :
                  /\ cleaned.rows[i][last_call.xaxis_col] # NA
                  /\ GroupingValue(cleaned.rows[i], last_call.color_col) # NA})

\* Grouped by education: a respondent counted, and one with an education
\* value that falls in no bin.
C10_Witness ==
    /\ last_call.invoked /\ ~last_call.raised
    /\ last_call.color_col = "education"
    /\ SumCounts(last_call.fig.data) = 1
    /\ \E i \in RowsOf(cleaned) :
          /\ cleaned.rows[i]["education"] = 0
          /\ cleaned.rows[i][last_call.xaxis_col] # NA

====
